---- MODULE Spec2Model ----
(***************************************************************************)
(* A model of the launch-and-buy script of bonk-mcp:                       *)
(*   src/src/bonk_mcp/utils.py       send_and_confirm_transaction,         *)
(*                                   download_image, prepare_ipfs          *)
(*   src/src/bonk_mcp/run_launch.py  main and the functions it calls       *)
(* Every network call is a step whose outcome the environment chooses.     *)
(* Text (URLs, response bodies, error messages) is a sequence of tokens,   *)
(* so that startswith, strip and the substring tests are computed.         *)
(***************************************************************************)
EXTENDS Integers, Sequences, FiniteSets, TLC

VARIABLES
  \* ---- send_and_confirm_transaction (utils.py) ----
  s_pc,          \* "idle" | "loop" | "returned" | "raised"
  confirm,       \* the confirm keyword parameter
  skip_preflight,\* the skip_preflight keyword parameter
  attempt,       \* the for-loop variable of the pipeline
  backoff,       \* the local backoff
  s_result,      \* the value returned: "False" | "Signature" | "Status" ("none" before)
  s_exc,         \* the exception that left the function ("none" if none)
  s_sends,       \* calls of client.send_transaction made by this call
  s_sleeps,      \* the delays slept by this call, in order
  s_errs,        \* the error texts caught by this call, in order
  s_signed,      \* client.send_transaction has returned a signature in this call
  rpc_sends,     \* calls of client.send_transaction made by the whole run
  \* ---- do_initial_buy (run_launch.py) ----
  b_pc,          \* "idle" | "create_tx" | "loop" | "wait" | "returned" | "raised"
  b_attempt,     \* the for-loop variable of the buy flow
  b_result,      \* "none" | "True" | "False"
  b_calls,       \* calls of send_and_confirm_transaction made by the buy flow
  b_sleeps,      \* the delays slept by the buy flow, in order
  b_kinds,       \* how each pipeline call of the buy flow ended
  \* ---- prepare_ipfs (utils.py) ----
  i_pc,          \* "idle" | "resolve" | "img_post" | "meta_post" | "returned" | "raised"
  arg_image_url, \* the image_url argument as passed
  image_url,     \* the local variable image_url (the argument, reassigned)
  image_data,    \* the image_data argument
  file,          \* the file argument
  data_to_upload,
  metadata_image,\* the "image" field of the metadata that was posted
  i_result,      \* the value returned, None included
  img_posts,     \* POSTs to /upload/img
  meta_posts,    \* POSTs to /upload/meta
  downloads,     \* GETs of download_image
  img_response,  \* the last response of /upload/img
  meta_response, \* the last response of /upload/meta
  \* ---- get_token_balance (run_launch.py) ----
  t_pc,          \* "idle" | "returned"
  t_response,    \* what the RPC request produced
  t_result,      \* [none |-> BOOLEAN, value |-> Int]
  \* ---- main and __main__ (run_launch.py) ----
  pc,            \* the stage main is about to run, or "exited"
  KEYPAIR_B58,   \* the environment variable, by what it decodes to
  visited,       \* the stages entered, in order
  failed,        \* the stages (and steps) that failed
  w_response,    \* what the getBalance request produced
  balance,       \* the fetched balance, in lamports; -1 before the fetch
  original,      \* the local original of prepare_ipfs_with_ssl_fix
  uri,
  launch_calls,  \* calls of launch_token_with_buy
  outcome,       \* "running" | "Done" | "abort" | "sys_exit" | "fatal" | "cancelled"
  exit_code,     \* the process's exit status once pc = "exited"
  printed,       \* the messages printed that the claims are about
  ClientSession  \* the global binding aiohttp.ClientSession

sendVars == <<s_pc, confirm, skip_preflight, attempt, backoff, s_result, s_exc, s_sends, s_sleeps,
              s_errs, s_signed, rpc_sends>>
buyVars  == <<b_pc, b_attempt, b_result, b_calls, b_sleeps, b_kinds>>
ipfsVars == <<i_pc, arg_image_url, image_url, image_data, file, data_to_upload,
              metadata_image, i_result, img_posts, meta_posts, downloads,
              img_response, meta_response>>
tokVars  == <<t_pc, t_response, t_result>>
mainVars == <<pc, KEYPAIR_B58, visited, failed, w_response, balance, original, uri, launch_calls, outcome,
              exit_code, printed, ClientSession>>
vars == <<sendVars, buyVars, ipfsVars, tokVars, mainVars>>

(***************************************************************************)
(* Bounds of the model.                                                    *)
(***************************************************************************)
MaxErrLen == 2
MaxAccounts == 2
MaxUiAmount == 3

(***************************************************************************)
(* Text as token sequences.                                                *)
(***************************************************************************)
None == <<"<None>">>

Truthy(x) == x # None /\ x # <<>>

Contains(text, tok) == \E i \in 1..Len(text) : text[i] = tok

StartsWith(text, prefix) ==
  /\ Len(text) >= Len(prefix)
  /\ SubSeq(text, 1, Len(prefix)) = prefix

SeqsUpTo(S, n) == UNION {[1..k -> S] : k \in 0..n}

(***************************************************************************)
(* send_and_confirm_transaction                                            *)
(***************************************************************************)
\* The names utils.py would bind at module level with "import asyncio" among
\* its imports.
UtilsImportsWithAsyncio ==
  {"asyncio",
   "struct", "traceback", "aiohttp", "json", "Optional", "Tuple", "Pubkey",
   "Instruction", "AccountMeta", "Keypair", "set_compute_unit_limit",
   "set_compute_unit_price", "Transaction", "CreateAccountParams", "create_account",
   "TxOpts", "RPCException", "client", "UNIT_PRICE", "UNIT_BUDGET", "TOKEN_PROGRAM",
   "SOL_DECIMAL", "WSOL_TOKEN", "ASSOC_TOKEN_ACC_PROG", "SYSTEM_PROGRAM", "RENT"}

\* The names utils.py binds at module level by its imports.
UtilsImports ==
  {"struct", "traceback", "aiohttp", "json", "Optional", "Tuple", "Pubkey",
   "Instruction", "AccountMeta", "Keypair", "set_compute_unit_limit",
   "set_compute_unit_price", "Transaction", "CreateAccountParams", "create_account",
   "TxOpts", "RPCException", "client", "UNIT_PRICE", "UNIT_BUDGET", "TOKEN_PROGRAM",
   "SOL_DECIMAL", "WSOL_TOKEN", "ASSOC_TOKEN_ACC_PROG", "SYSTEM_PROGRAM", "RENT"}

\* The names run_launch.py binds at module level by its imports.
RunLaunchImports ==
  {"asyncio", "os", "sys", "base58", "ssl", "aiohttp", "json", "Optional", "Keypair",
   "Pubkey", "AsyncClient", "Confirmed", "certifi", "launch_token_with_buy",
   "create_buy_tx", "send_and_confirm_transaction", "prepare_ipfs"}

SEND_ATTEMPTS == 3
INITIAL_BACKOFF == 1

ErrTokens == {"429", "Too Many Requests", "Blockhash not found", "timed out"}
ErrTexts == SeqsUpTo(ErrTokens, MaxErrLen)

IsRateLimit(err_str) ==
  Contains(err_str, "429") \/ Contains(err_str, "Too Many Requests")

\* SendExcept without the test of the error text: every error is retried.
SendExceptRetriesAny(err_str) ==
  /\ s_errs' = Append(s_errs, err_str)
  /\ IF attempt = SEND_ATTEMPTS
       THEN /\ s_pc' = "returned"
            /\ s_result' = "False"
            /\ UNCHANGED <<attempt, backoff, s_sleeps, s_exc>>
       ELSE /\ s_sleeps' = Append(s_sleeps, backoff)
            /\ backoff' = backoff * 2
            /\ attempt' = attempt + 1
            /\ UNCHANGED <<s_pc, s_result, s_exc>>

\* The except clause of the loop body, for the caught error text err_str.
SendExcept(err_str) ==
  /\ s_errs' = Append(s_errs, err_str)
  /\ IF IsRateLimit(err_str)
       THEN IF attempt = SEND_ATTEMPTS
              THEN \* break; return False
                   /\ s_pc' = "returned"
                   /\ s_result' = "False"
                   /\ UNCHANGED <<attempt, backoff, s_sleeps, s_exc>>
              ELSE IF "asyncio" \in UtilsImports
                     THEN \* await asyncio.sleep(backoff); backoff *= 2; continue
                          /\ s_sleeps' = Append(s_sleeps, backoff)
                          /\ backoff' = backoff * 2
                          /\ attempt' = attempt + 1
                          /\ UNCHANGED <<s_pc, s_result, s_exc>>
                     ELSE \* the name asyncio is unbound: NameError leaves the handler
                          /\ s_pc' = "raised"
                          /\ s_exc' = "NameError"
                          /\ UNCHANGED <<attempt, backoff, s_sleeps, s_result>>
       ELSE \* break; return False
            /\ s_pc' = "returned"
            /\ s_result' = "False"
            /\ UNCHANGED <<attempt, backoff, s_sleeps, s_exc>>

\* One iteration of the for loop: client.send_transaction, then, with confirm,
\* client.confirm_transaction; an exception of either runs the except clause.
SendAttempt ==
  /\ s_pc = "loop"
  /\ attempt \in 1..SEND_ATTEMPTS
  /\ s_sends' = s_sends + 1
  /\ rpc_sends' = rpc_sends + 1
  /\ UNCHANGED <<confirm, skip_preflight>>
  /\ UNCHANGED <<buyVars, ipfsVars, tokVars, mainVars>>
  /\ \/ \* send_transaction raises
        /\ \E e \in ErrTexts : SendExcept(e)
        /\ UNCHANGED s_signed
     \/ \* send_transaction returns a signature
        /\ s_signed' = TRUE
        /\ IF confirm
             THEN \/ /\ s_pc' = "returned"
                     /\ s_result' = "Status"
                     /\ UNCHANGED <<attempt, backoff, s_sleeps, s_exc, s_errs>>
                  \/ \E e \in ErrTexts : SendExcept(e)
             ELSE /\ s_pc' = "returned"
                  /\ s_result' = "Signature"
                  /\ UNCHANGED <<attempt, backoff, s_sleeps, s_exc, s_errs>>

\* The state of a fresh call of
\* send_and_confirm_transaction(skip_preflight=sp, confirm=c).
SendEntry(sp, c) ==
  /\ s_pc' = "loop"
  /\ confirm' = c
  /\ skip_preflight' = sp
  /\ attempt' = 1
  /\ backoff' = INITIAL_BACKOFF
  /\ s_result' = "none"
  /\ s_exc' = "none"
  /\ s_sends' = 0
  /\ s_sleeps' = <<>>
  /\ s_errs' = <<>>
  /\ s_signed' = FALSE
  /\ UNCHANGED rpc_sends

SendIdle ==
  /\ s_pc = "idle"
  /\ confirm = FALSE
  /\ skip_preflight = TRUE
  /\ attempt = 0
  /\ backoff = 0
  /\ s_result = "none"
  /\ s_exc = "none"
  /\ s_sends = 0
  /\ s_sleeps = <<>>
  /\ s_errs = <<>>
  /\ s_signed = FALSE
  /\ rpc_sends = 0

(***************************************************************************)
(* do_initial_buy                                                          *)
(***************************************************************************)
BUY_ATTEMPTS == 3

\* How the pipeline call the buy flow waits for has ended.
SendKind ==
  IF s_pc = "returned" /\ s_result # "False" THEN "ok"
  ELSE IF s_errs # <<>> /\ \A i \in 1..Len(s_errs) : IsRateLimit(s_errs[i])
         THEN "rate_limited"
         ELSE "other"

\* create_buy_tx, awaited before the loop; an exception of it leaves do_initial_buy.
BuyCreateTx ==
  /\ b_pc = "create_tx"
  /\ \/ /\ b_pc' = "loop"
        /\ b_attempt' = 1
     \/ /\ b_pc' = "raised"
        /\ UNCHANGED b_attempt
  /\ UNCHANGED <<b_result, b_calls, b_sleeps, b_kinds>>
  /\ UNCHANGED <<sendVars, ipfsVars, tokVars, mainVars>>

\* The call send_and_confirm_transaction(buy_txn, payer_keypair, *extra_signers).
BuyAttempt ==
  /\ b_pc = "loop"
  /\ b_attempt \in 1..BUY_ATTEMPTS
  /\ SendEntry(TRUE, FALSE)
  /\ b_pc' = "wait"
  /\ b_calls' = b_calls + 1
  /\ UNCHANGED <<b_attempt, b_result, b_sleeps, b_kinds>>
  /\ UNCHANGED <<ipfsVars, tokVars, mainVars>>

\* The loop body of do_initial_buy as a loop that does not count its
\* iterations: after a failed pipeline call it sleeps and submits again.
BuyAfterSendRetriesForever ==
  /\ b_pc = "wait"
  /\ s_pc \in {"returned", "raised"}
  /\ b_kinds' = Append(b_kinds, SendKind)
  /\ IF s_pc = "returned" /\ s_result # "False"
       THEN /\ b_pc' = "returned"
            /\ b_result' = "True"
            /\ UNCHANGED <<b_attempt, b_sleeps>>
       ELSE /\ "asyncio" \in RunLaunchImports
            /\ b_sleeps' = Append(b_sleeps, 1 + b_attempt)
            /\ b_pc' = "loop"
            /\ UNCHANGED <<b_attempt, b_result>>
  /\ UNCHANGED b_calls
  /\ UNCHANGED <<sendVars, ipfsVars, tokVars, mainVars>>

\* The rest of the loop body once the pipeline call has ended: return True on a
\* truthy result; otherwise (a falsy result, or an exception caught by the
\* except clause) sleep 1 + attempt and go on, returning False after the loop.
BuyAfterSend ==
  /\ b_pc = "wait"
  /\ s_pc \in {"returned", "raised"}
  /\ b_kinds' = Append(b_kinds, SendKind)
  /\ IF s_pc = "returned" /\ s_result # "False"
       THEN /\ b_pc' = "returned"
            /\ b_result' = "True"
            /\ UNCHANGED <<b_attempt, b_sleeps>>
       ELSE /\ "asyncio" \in RunLaunchImports
            /\ b_sleeps' = Append(b_sleeps, 1 + b_attempt)
            /\ IF b_attempt = BUY_ATTEMPTS
                 THEN /\ b_pc' = "returned"
                      /\ b_result' = "False"
                      /\ UNCHANGED b_attempt
                 ELSE /\ b_pc' = "loop"
                      /\ b_attempt' = b_attempt + 1
                      /\ UNCHANGED b_result
  /\ UNCHANGED b_calls
  /\ UNCHANGED <<sendVars, ipfsVars, tokVars, mainVars>>

BuyEntry ==
  /\ b_pc' = "create_tx"
  /\ b_attempt' = 0
  /\ b_result' = "none"
  /\ b_calls' = 0
  /\ b_sleeps' = <<>>
  /\ b_kinds' = <<>>

BuyIdle ==
  /\ b_pc = "idle"
  /\ b_attempt = 0
  /\ b_result = "none"
  /\ b_calls = 0
  /\ b_sleeps = <<>>
  /\ b_kinds = <<>>

(***************************************************************************)
(* download_image and prepare_ipfs                                         *)
(***************************************************************************)
HTTPS == <<"https://">>
PINATA_PREFIX == <<"https://", "sapphire-working-koi-276.mypinata.cloud/ipfs/">>
DEFAULT_IMAGE_URL ==
  PINATA_PREFIX \o <<"bafybeihpy352xnqgn74nrjj6bgxndrss5nbqix4kfhwfanoyo766tgwzz4">>
IMAGE_URL ==
  <<"https://", "ipfs.io/ipfs/",
    "bafkreib2irepj4xxku6eovlbbmnb5wbkktyt6pecexdjfxhxvmuwpnirae">>

Whitespace == {" ", "\n"}

RECURSIVE LStrip(_)
LStrip(text) ==
  IF text # <<>> /\ Head(text) \in Whitespace THEN LStrip(Tail(text)) ELSE text

RECURSIVE RStrip(_)
RStrip(text) ==
  IF text # <<>> /\ text[Len(text)] \in Whitespace
    THEN RStrip(SubSeq(text, 1, Len(text) - 1))
    ELSE text

\* str.strip()
Strip(text) == RStrip(LStrip(text))

\* The arguments prepare_ipfs is called with.
ImageUrlArgs == {None, <<>>, PINATA_PREFIX \o <<"bafyPinned">>, IMAGE_URL}
ImageDataArgs == {None, <<>>, <<"jpeg-bytes-arg">>}
FileArgs == {None, <<"logo.jpg">>}

\* What reading the file gives: its bytes (none for an empty file), or None when
\* open or read raises.
FileReads == {None, <<>>, <<"jpeg-bytes-file">>}

\* What download_image returns: the body of a 200 response (empty or not), or
\* None on another status or an exception.
DownloadResults == {None, <<>>, <<"jpeg-bytes-url">>}

\* Response bodies. A body of kind "text" is text that is no JSON document; a
\* "json_object" body is a JSON object, with or without a url member (url is
\* None for JSON null); a "json_other" body is a JSON document that is no object.
UPLOADED == <<"https://", "gated.chat/", "QmUploaded">>
NoUrl == <<"<absent>">>
Body(k, t, u) == [kind |-> k, text |-> t, url |-> u]
Bodies ==
  {Body("text", t, NoUrl) :
     t \in {UPLOADED, UPLOADED \o <<"\n">>, <<" ">> \o UPLOADED,
            <<"Internal Server Error">>, <<>>}}
  \cup {Body("json_object", <<>>, u) : u \in {UPLOADED, <<>>, None, NoUrl}}
  \cup {Body("json_other", <<>>, NoUrl)}
Raised == [raised |-> TRUE, status |-> 0, body |-> Body("text", <<>>, NoUrl)]
Response(st, b) == [raised |-> FALSE, status |-> st, body |-> b]
\* What a POST gives: an exception, a 200 response with any of the bodies, or
\* an error response.
Responses ==
  {Raised}
  \cup {Response(200, b) : b \in Bodies}
  \cup {Response(500, Body("text", <<"Internal Server Error">>, NoUrl)),
        Response(429, Body("text", UPLOADED, NoUrl)),
        Response(404, Body("json_object", <<>>, UPLOADED))}
NoResponse == [raised |-> FALSE, status |-> 0, body |-> Body("text", <<>>, NoUrl)]

\* json.loads(response_text) raises JSONDecodeError
JsonDecodeError(body) == body.kind = "text"

\* result.get("url") raises AttributeError (result is no dict)
GetRaises(body) == body.kind = "json_other"

\* result.get("url") of a JSON object
GetUrl(body) == IF body.url = NoUrl THEN None ELSE body.url

\* The value of image_url after the image-upload response has been read; the
\* response is r, image_url was url before.
ImageUrlAfterUpload(r, url) ==
  IF r.status = 200
    THEN IF StartsWith(r.body.text, HTTPS) /\ r.body.kind = "text"
           THEN Strip(r.body.text)
           ELSE IF JsonDecodeError(r.body) THEN url ELSE GetUrl(r.body)
    ELSE url

\* MetadataResult accepting the bare URI only.
MetadataResultBareOnly(r) ==
  IF r.status = 200 /\ StartsWith(r.body.text, HTTPS) THEN Strip(r.body.text) ELSE None

\* The value the metadata-upload response makes prepare_ipfs return.
MetadataResult(r) ==
  IF r.status = 200
    THEN IF StartsWith(r.body.text, HTTPS) /\ r.body.kind = "text"
           THEN Strip(r.body.text)
           ELSE IF JsonDecodeError(r.body) THEN None
                ELSE IF Truthy(GetUrl(r.body)) THEN GetUrl(r.body) ELSE None
    ELSE None

\* if not image_url: image_url = <the default>
OrDefault(url) == IF Truthy(url) THEN url ELSE DEFAULT_IMAGE_URL

\* DataChoices with the image_url tried before image_data and file.
DataChoicesUrlFirst(url, data, f) ==
  IF Truthy(url) THEN DownloadResults
  ELSE IF Truthy(data) THEN {data}
  ELSE IF Truthy(f) THEN FileReads
  ELSE {None}

\* The if/elif chain that sets data_to_upload: the values it can get for the
\* arguments url, data and f.
DataChoices(url, data, f) ==
  IF Truthy(data) THEN {data}
  ELSE IF Truthy(f) THEN FileReads
  ELSE IF Truthy(url) THEN DownloadResults
  ELSE {None}

\* Whether the chain calls download_image.
Downloads(url, data, f) == ~Truthy(data) /\ ~Truthy(f) /\ Truthy(url)

IpfsReturn(v) ==
  /\ i_pc' = "returned"
  /\ i_result' = v

\* From the entry of prepare_ipfs to its first upload: the choice of the image
\* source, with the file read or the download.
IpfsResolve ==
  /\ i_pc = "resolve"
  /\ UNCHANGED <<arg_image_url, image_data, file, metadata_image, img_posts,
                 meta_posts, img_response, meta_response, i_result>>
  /\ UNCHANGED <<sendVars, buyVars, tokVars, mainVars>>
  /\ IF Truthy(image_url) /\ StartsWith(image_url, PINATA_PREFIX)
       THEN /\ i_pc' = "meta_post"
            /\ UNCHANGED <<image_url, data_to_upload, downloads>>
       ELSE \E d \in DataChoices(image_url, image_data, file) :
              /\ data_to_upload' = d
              /\ downloads' = IF Downloads(image_url, image_data, file)
                                THEN downloads + 1 ELSE downloads
              /\ IF Truthy(d)
                   THEN /\ i_pc' = "img_post"
                        /\ UNCHANGED image_url
                   ELSE /\ i_pc' = "meta_post"
                        /\ image_url' = OrDefault(image_url)

\* The POST to /upload/img and the reading of its response.
IpfsImagePost ==
  /\ i_pc = "img_post"
  /\ img_posts' = img_posts + 1
  /\ UNCHANGED <<arg_image_url, image_data, file, data_to_upload, metadata_image,
                 meta_posts, downloads, meta_response>>
  /\ UNCHANGED <<sendVars, buyVars, tokVars, mainVars>>
  /\ \E r \in Responses :
       /\ img_response' = r
       /\ IF r.raised \/ (r.status = 200 /\ ~StartsWith(r.body.text, HTTPS)
                                          /\ GetRaises(r.body))
            THEN \* except Exception: return None
                 /\ IpfsReturn(None)
                 /\ UNCHANGED image_url
            ELSE IF ~Truthy(ImageUrlAfterUpload(r, image_url))
                   THEN \* Image upload error: return None
                        /\ IpfsReturn(None)
                        /\ image_url' = ImageUrlAfterUpload(r, image_url)
                   ELSE /\ image_url' = OrDefault(ImageUrlAfterUpload(r, image_url))
                        /\ i_pc' = "meta_post"
                        /\ UNCHANGED i_result

\* The building of the metadata, the POST to /upload/meta and the reading of
\* its response.
IpfsMetaPost ==
  /\ i_pc = "meta_post"
  /\ metadata_image' = image_url
  /\ meta_posts' = meta_posts + 1
  /\ UNCHANGED <<arg_image_url, image_url, image_data, file, data_to_upload,
                 img_posts, downloads, img_response>>
  /\ UNCHANGED <<sendVars, buyVars, tokVars, mainVars>>
  /\ \E r \in Responses :
       /\ meta_response' = r
       /\ IF r.raised \/ (r.status = 200 /\ ~StartsWith(r.body.text, HTTPS)
                                          /\ GetRaises(r.body))
            THEN IpfsReturn(None)
            ELSE IpfsReturn(MetadataResult(r))

\* The state of a fresh call prepare_ipfs(image_url=u, image_data=d, file=f).
IpfsEntry(u, d, f) ==
  /\ i_pc' = "resolve"
  /\ arg_image_url' = u
  /\ image_url' = u
  /\ image_data' = d
  /\ file' = f
  /\ data_to_upload' = None
  /\ metadata_image' = None
  /\ i_result' = None
  /\ img_posts' = 0
  /\ meta_posts' = 0
  /\ downloads' = 0
  /\ img_response' = NoResponse
  /\ meta_response' = NoResponse

IpfsIdle ==
  /\ i_pc = "idle"
  /\ arg_image_url = None
  /\ image_url = None
  /\ image_data = None
  /\ file = None
  /\ data_to_upload = None
  /\ metadata_image = None
  /\ i_result = None
  /\ img_posts = 0
  /\ meta_posts = 0
  /\ downloads = 0
  /\ img_response = NoResponse
  /\ meta_response = NoResponse

(***************************************************************************)
(* get_token_balance                                                       *)
(***************************************************************************)
\* uiAmount is counted in halves of a token: 3 is 1.5.
Account(n) == [is_null |-> FALSE, uiAmount |-> n]
NullAccount == [is_null |-> TRUE, uiAmount |-> 0]
Accounts == {NullAccount} \cup {Account(n) : n \in 0..MaxUiAmount}

\* What the getTokenAccountsByOwner request gives: an exception (of the POST or
\* of the reading of the JSON body), a body without "result", or a body whose
\* result.value is a list of token accounts.
TokenRaised == [kind |-> "raises", value |-> <<>>]
TokenNoResult == [kind |-> "no_result", value |-> <<>>]
TokenResult(accs) == [kind |-> "result", value |-> accs]
TokenResponses ==
  {TokenRaised, TokenNoResult} \cup {TokenResult(a) : a \in SeqsUpTo(Accounts, MaxAccounts)}

FloatNone == [none |-> TRUE, value |-> 0]
Float(n) == [none |-> FALSE, value |-> n]

\* amt_str if amt_str is not None else 0
AmountOf(acc) == IF acc.is_null THEN 0 ELSE acc.uiAmount

\* The for loop over accounts, from the running total.
RECURSIVE TotalFrom(_, _)
TotalFrom(total, accounts) ==
  IF accounts = <<>> THEN total
  ELSE TotalFrom(total + AmountOf(Head(accounts)), Tail(accounts))

\* TokenBalanceOf adding a null uiAmount to the total: the TypeError is
\* caught and None returned.
TokenBalanceOfNullRaises(r) ==
  IF r.kind = "raises" THEN FloatNone
  ELSE IF r.kind = "result" /\ r.value # <<>>
         THEN IF \E i \in 1..Len(r.value) : r.value[i].is_null
                THEN FloatNone
                ELSE Float(TotalFrom(0, r.value))
  ELSE Float(0)

\* The value get_token_balance returns when the request gives r.
TokenBalanceOf(r) ==
  IF r.kind = "raises" THEN FloatNone
  ELSE IF r.kind = "result" /\ r.value # <<>> THEN Float(TotalFrom(0, r.value))
  ELSE Float(0)

GetTokenBalance(r) ==
  /\ t_response' = r
  /\ t_result' = TokenBalanceOf(r)
  /\ t_pc' = "returned"

TokIdle ==
  /\ t_pc = "idle"
  /\ t_response = TokenNoResult
  /\ t_result = FloatNone

(***************************************************************************)
(* get_wallet_balance and the balance gate                                 *)
(***************************************************************************)
\* Amounts of SOL are counted in lamports (1e-9 SOL).
INITIAL_BUY_SOL == 50000000
GATE_BUFFER == 100000000

\* In binary floating point 0.05 + 0.1 evaluates to 0.15000000000000002, which
\* is more than 150000000 / 1e9 = 0.15 and less than 150000001 / 1e9.
FloatSumRoundsUp == TRUE

\* BelowGate without the buffer: balance < INITIAL_BUY_SOL
BelowGateNoBuffer(n) == n < INITIAL_BUY_SOL

\* balance < INITIAL_BUY_SOL + 0.1, for a balance of n lamports
BelowGate(n) ==
  \/ n < INITIAL_BUY_SOL + GATE_BUFFER
  \/ n = INITIAL_BUY_SOL + GATE_BUFFER /\ FloatSumRoundsUp

\* What the getBalance request gives: an exception, a body without "result",
\* or a body whose result.value is a number of lamports.
WalletRaised == [kind |-> "raises", lamports |-> 0]
WalletNoResult == [kind |-> "no_result", lamports |-> 0]
WalletResult(n) == [kind |-> "result", lamports |-> n]
WalletLamports == {0, 49999999, 100000000, 149999999, 150000000, 150000001, 200000000}
WalletResponses ==
  {WalletRaised, WalletNoResult} \cup {WalletResult(n) : n \in WalletLamports}

\* The value get_wallet_balance returns when the request gives r, in lamports.
WalletBalanceOf(r) == IF r.kind = "result" THEN r.lamports ELSE 0

(***************************************************************************)
(* main and the __main__ block                                             *)
(***************************************************************************)
Stages ==
  <<"Validate", "ConnectivityCheck", "BalanceGate", "MetadataUpload", "Launch",
    "InitialBuy", "VerifyBalance", "Done">>

TEST_URLS == <<"https://ipfs.io", "https://api.mainnet-beta.solana.com">>

\* KEYPAIR_B58 by what the code asks of it: whether it is a non-empty string,
\* the number of bytes base58.b58decode gives (-1 when it raises), and whether
\* Keypair.from_bytes accepts them.
KeypairEnv(t, n, ok) == [truthy |-> t, decoded |-> n, accepted |-> ok]
KeypairEnvs ==
  {KeypairEnv(FALSE, 0, FALSE), KeypairEnv(TRUE, -1, FALSE), KeypairEnv(TRUE, 63, FALSE),
   KeypairEnv(TRUE, 64, FALSE), KeypairEnv(TRUE, 64, TRUE)}

\* The classes aiohttp.ClientSession can be bound to when main starts:
\* aiohttp's own, or PatchedClientSession when utils_patch was imported.
SessionClasses == {"aiohttp.ClientSession", "PatchedClientSession"}

Enter(stage) ==
  /\ pc' = stage
  /\ visited' = Append(visited, stage)

\* The process ends: how, with which exit status, after printing msgs.
Exit(how, code, msgs) ==
  /\ pc' = "exited"
  /\ outcome' = how
  /\ exit_code' = code
  /\ printed' = printed \cup msgs
  /\ UNCHANGED visited

\* main returns before its end; asyncio.run returns and the script ends.
Return(msgs) == Exit("abort", 0, msgs)

\* sys.exit(1): SystemExit is no Exception, so it leaves the __main__ block.
SysExit(msgs) == Exit("sys_exit", 1, msgs)

\* An exception leaves main: the __main__ block prints it and the traceback,
\* and the script ends.
Fatal == Exit("fatal", 0, {"Fatal error", "traceback"})

\* validate_environment
Validate ==
  /\ pc = "Validate"
  /\ IF ~KEYPAIR_B58.truthy
       THEN /\ SysExit({"ERROR: KEYPAIR environment variable not set!"})
            /\ failed' = failed \cup {"Validate"}
       ELSE /\ Enter("ConnectivityCheck")
            /\ UNCHANGED <<outcome, exit_code, printed, failed>>
  /\ UNCHANGED <<KEYPAIR_B58, w_response, balance, original, uri, launch_calls,
                 ClientSession>>
  /\ UNCHANGED <<sendVars, buyVars, ipfsVars, tokVars>>

\* test_ssl_connection: a GET of each test URL; an exception of a GET is
\* printed and the loop goes on.
ConnectivityCheck ==
  /\ pc = "ConnectivityCheck"
  /\ \E got \in [1..Len(TEST_URLS) -> {"status", "failed"}] :
       failed' = IF \E i \in 1..Len(TEST_URLS) : got[i] = "failed"
                   THEN failed \cup {"ConnectivityCheck"}
                   ELSE failed
  /\ pc' = "MakeKeypair"
  /\ UNCHANGED <<KEYPAIR_B58, visited, w_response, balance, original, uri,
                 launch_calls, outcome, exit_code, printed, ClientSession>>
  /\ UNCHANGED <<sendVars, buyVars, ipfsVars, tokVars>>

\* make_keypair_from_base58(KEYPAIR_B58) and Keypair()
MakeKeypair ==
  /\ pc = "MakeKeypair"
  /\ IF KEYPAIR_B58.decoded = 64 /\ KEYPAIR_B58.accepted
       THEN /\ Enter("BalanceGate")
            /\ UNCHANGED <<outcome, exit_code, printed, failed>>
       ELSE /\ SysExit({"ERROR decoding keypair"})
            /\ failed' = failed \cup {"MakeKeypair"}
  /\ UNCHANGED <<KEYPAIR_B58, w_response, balance, original, uri, launch_calls,
                 ClientSession>>
  /\ UNCHANGED <<sendVars, buyVars, ipfsVars, tokVars>>

\* get_wallet_balance and the test of the balance.
BalanceGate ==
  /\ pc = "BalanceGate"
  /\ \E r \in WalletResponses :
       /\ w_response' = r
       /\ balance' = WalletBalanceOf(r)
       /\ IF BelowGate(WalletBalanceOf(r))
            THEN /\ Return({"Low balance"})
                 /\ failed' = failed \cup {"BalanceGate"}
            ELSE /\ Enter("MetadataUpload")
                 /\ UNCHANGED <<outcome, exit_code, printed, failed>>
  /\ UNCHANGED <<KEYPAIR_B58, original, uri, launch_calls, ClientSession>>
  /\ UNCHANGED <<sendVars, buyVars, ipfsVars, tokVars>>

\* prepare_ipfs_with_ssl_fix up to its call of prepare_ipfs.
MetadataUploadCall ==
  /\ pc = "MetadataUpload"
  /\ original' = ClientSession
  /\ ClientSession' = "SSLFixedClientSession"
  /\ IpfsEntry(IMAGE_URL, None, None)
  /\ pc' = "MetadataUpload.await"
  /\ UNCHANGED <<KEYPAIR_B58, visited, failed, w_response, balance, uri, launch_calls,
                 outcome, exit_code, printed>>
  /\ UNCHANGED <<sendVars, buyVars, tokVars>>

\* prepare_ipfs_with_ssl_fix without its finally clause: the binding made
\* before the call stays.
MetadataUploadReturnNoRestore ==
  /\ pc = "MetadataUpload.await"
  /\ i_pc = "returned"
  /\ uri' = i_result
  /\ IF ~Truthy(i_result)
       THEN /\ Return({"Failed to prepare IPFS metadata"})
            /\ failed' = failed \cup {"MetadataUpload"}
       ELSE /\ Enter("Launch")
            /\ UNCHANGED <<outcome, exit_code, printed, failed>>
  /\ UNCHANGED <<KEYPAIR_B58, w_response, balance, original, launch_calls,
                 ClientSession>>
  /\ UNCHANGED <<sendVars, buyVars, ipfsVars, tokVars>>

\* prepare_ipfs has returned: the finally clause, and the test of uri.
MetadataUploadReturn ==
  /\ pc = "MetadataUpload.await"
  /\ i_pc = "returned"
  /\ ClientSession' = original
  /\ uri' = i_result
  /\ IF ~Truthy(i_result)
       THEN /\ Return({"Failed to prepare IPFS metadata"})
            /\ failed' = failed \cup {"MetadataUpload"}
       ELSE /\ Enter("Launch")
            /\ UNCHANGED <<outcome, exit_code, printed, failed>>
  /\ UNCHANGED <<KEYPAIR_B58, w_response, balance, original, launch_calls>>
  /\ UNCHANGED <<sendVars, buyVars, ipfsVars, tokVars>>

\* launch_token_with_buy and the test of its result: a result with an error,
\* a result without, or an exception.
Launch ==
  /\ pc = "Launch"
  /\ launch_calls' = launch_calls + 1
  /\ \/ /\ Return({"Launch failed"})
        /\ failed' = failed \cup {"Launch"}
     \/ /\ Fatal
        /\ failed' = failed \cup {"Launch"}
     \/ /\ Enter("InitialBuy")
        /\ UNCHANGED <<outcome, exit_code, printed, failed>>
  /\ UNCHANGED <<KEYPAIR_B58, w_response, balance, original, uri, ClientSession>>
  /\ UNCHANGED <<sendVars, buyVars, ipfsVars, tokVars>>

\* The call of do_initial_buy.
InitialBuyCall ==
  /\ pc = "InitialBuy"
  /\ BuyEntry
  /\ pc' = "InitialBuy.await"
  /\ UNCHANGED <<KEYPAIR_B58, visited, failed, w_response, balance, original, uri,
                 launch_calls, outcome, exit_code, printed, ClientSession>>
  /\ UNCHANGED <<sendVars, ipfsVars, tokVars>>

\* InitialBuyReturn without the return on a failed buy.
InitialBuyReturnGoesOn ==
  /\ pc = "InitialBuy.await"
  /\ b_pc \in {"returned", "raised"}
  /\ IF b_pc = "raised"
       THEN /\ Fatal
            /\ failed' = failed \cup {"InitialBuy"}
       ELSE /\ Enter("VerifyBalance")
            /\ failed' = IF b_result = "True" THEN failed ELSE failed \cup {"InitialBuy"}
            /\ UNCHANGED <<outcome, exit_code, printed>>
  /\ UNCHANGED <<KEYPAIR_B58, w_response, balance, original, uri, launch_calls,
                 ClientSession>>
  /\ UNCHANGED <<sendVars, buyVars, ipfsVars, tokVars>>

\* do_initial_buy has returned or raised: the test of bought.
InitialBuyReturn ==
  /\ pc = "InitialBuy.await"
  /\ b_pc \in {"returned", "raised"}
  /\ IF b_pc = "raised"
       THEN /\ Fatal
            /\ failed' = failed \cup {"InitialBuy"}
       ELSE IF b_result = "True"
              THEN /\ Enter("VerifyBalance")
                   /\ UNCHANGED <<outcome, exit_code, printed, failed>>
              ELSE /\ Return({"Buy failed"})
                   /\ failed' = failed \cup {"InitialBuy"}
  /\ UNCHANGED <<KEYPAIR_B58, w_response, balance, original, uri, launch_calls,
                 ClientSession>>
  /\ UNCHANGED <<sendVars, buyVars, ipfsVars, tokVars>>

\* get_token_balance and the printing of its result.
VerifyBalance ==
  /\ pc = "VerifyBalance"
  /\ \E r \in TokenResponses :
       /\ GetTokenBalance(r)
       /\ IF TokenBalanceOf(r).none
            THEN /\ printed' = printed \cup {"Could not fetch token balance."}
                 /\ failed' = failed \cup {"VerifyBalance"}
            ELSE /\ printed' = printed \cup {"token balance"}
                 /\ UNCHANGED failed
  /\ Enter("Done")
  /\ UNCHANGED <<KEYPAIR_B58, w_response, balance, original, uri, launch_calls,
                 outcome, exit_code, ClientSession>>
  /\ UNCHANGED <<sendVars, buyVars, ipfsVars>>

\* print("Done."): main ends, asyncio.run returns and the script ends.
Done ==
  /\ pc = "Done"
  /\ Exit("Done", 0, {"Done."})
  /\ UNCHANGED <<KEYPAIR_B58, failed, w_response, balance, original, uri,
                 launch_calls, ClientSession>>
  /\ UNCHANGED <<sendVars, buyVars, ipfsVars, tokVars>>

\* Ctrl-C while main runs: the awaits in progress are cancelled (no except
\* Exception clause catches the cancellation, the finally clause of
\* prepare_ipfs_with_ssl_fix runs) and the __main__ block prints the message.
KeyboardInterrupt ==
  /\ pc # "exited"
  /\ Exit("cancelled", 0, {"Cancelled by user"})
  /\ ClientSession' = IF pc = "MetadataUpload.await" THEN original ELSE ClientSession
  /\ i_pc' = IF pc = "MetadataUpload.await" THEN "raised" ELSE i_pc
  /\ b_pc' = IF pc = "InitialBuy.await" THEN "raised" ELSE b_pc
  /\ s_pc' = IF pc = "InitialBuy.await" /\ b_pc = "wait" THEN "raised" ELSE s_pc
  /\ s_exc' = IF pc = "InitialBuy.await" /\ b_pc = "wait" THEN "CancelledError" ELSE s_exc
  /\ UNCHANGED <<KEYPAIR_B58, failed, w_response, balance, original, uri, launch_calls>>
  /\ UNCHANGED <<confirm, skip_preflight, attempt, backoff, s_result, s_sends,
                 s_sleeps, s_errs, s_signed, rpc_sends>>
  /\ UNCHANGED <<b_attempt, b_result, b_calls, b_sleeps, b_kinds>>
  /\ UNCHANGED <<arg_image_url, image_url, image_data, file, data_to_upload,
                 metadata_image, i_result, img_posts, meta_posts, downloads,
                 img_response, meta_response>>
  /\ UNCHANGED tokVars

MainIdle ==
  /\ pc = "none"
  /\ KEYPAIR_B58 = KeypairEnv(TRUE, 64, TRUE)
  /\ visited = <<>>
  /\ failed = {}
  /\ w_response = WalletNoResult
  /\ balance = -1
  /\ original = "aiohttp.ClientSession"
  /\ uri = None
  /\ launch_calls = 0
  /\ outcome = "running"
  /\ exit_code = 0
  /\ printed = {}
  /\ ClientSession = "aiohttp.ClientSession"

(***************************************************************************)
(* Spec: a run of the script.                                              *)
(***************************************************************************)
Init ==
  /\ SendIdle /\ BuyIdle /\ IpfsIdle /\ TokIdle
  /\ pc = "Validate"
  /\ KEYPAIR_B58 \in KeypairEnvs
  /\ visited = <<"Validate">>
  /\ failed = {}
  /\ w_response = WalletNoResult
  /\ balance = -1
  /\ ClientSession \in SessionClasses
  /\ original = ClientSession
  /\ uri = None
  /\ launch_calls = 0
  /\ outcome = "running"
  /\ exit_code = 0
  /\ printed = {}

Next ==
  \/ Validate
  \/ ConnectivityCheck
  \/ MakeKeypair
  \/ BalanceGate
  \/ MetadataUploadCall
  \/ IpfsResolve
  \/ IpfsImagePost
  \/ IpfsMetaPost
  \/ MetadataUploadReturn
  \/ Launch
  \/ InitialBuyCall
  \/ BuyCreateTx
  \/ BuyAttempt
  \/ SendAttempt
  \/ BuyAfterSend
  \/ InitialBuyReturn
  \/ VerifyBalance
  \/ Done
  \/ KeyboardInterrupt

Spec == Init /\ [][Next]_vars

\* A step of the program itself: any step but the user's Ctrl-C.
ProgramStep == Next /\ outcome' # "cancelled"

\* asyncio.run(main()) drives main to its end: every awaited call returns or
\* raises, so the program takes its next step as long as it has one.  Ctrl-C
\* may come at any moment, and need never come.
SpecLive == Init /\ [][Next]_vars /\ WF_vars(ProgramStep)

(***************************************************************************)
(* SpecSend: a call of send_and_confirm_transaction.                       *)
(***************************************************************************)
InitSend ==
  /\ BuyIdle /\ IpfsIdle /\ TokIdle /\ MainIdle
  /\ s_pc = "loop"
  /\ confirm \in BOOLEAN
  /\ skip_preflight \in BOOLEAN
  /\ attempt = 1
  /\ backoff = INITIAL_BACKOFF
  /\ s_result = "none"
  /\ s_exc = "none"
  /\ s_sends = 0
  /\ s_sleeps = <<>>
  /\ s_errs = <<>>
  /\ s_signed = FALSE
  /\ rpc_sends = 0

NextSend == SendAttempt

SpecSend == InitSend /\ [][NextSend]_vars

(***************************************************************************)
(* SpecIpfs: a call of prepare_ipfs.                                       *)
(***************************************************************************)
InitIpfs ==
  /\ SendIdle /\ BuyIdle /\ TokIdle /\ MainIdle
  /\ i_pc = "resolve"
  /\ arg_image_url \in ImageUrlArgs
  /\ image_url = arg_image_url
  /\ image_data \in ImageDataArgs
  /\ file \in FileArgs
  /\ data_to_upload = None
  /\ metadata_image = None
  /\ i_result = None
  /\ img_posts = 0
  /\ meta_posts = 0
  /\ downloads = 0
  /\ img_response = NoResponse
  /\ meta_response = NoResponse

NextIpfs ==
  \/ IpfsResolve
  \/ IpfsImagePost
  \/ IpfsMetaPost

SpecIpfs == InitIpfs /\ [][NextIpfs]_vars

(***************************************************************************)
(* The claims about send_and_confirm_transaction, under SpecSend.          *)
(***************************************************************************)
\* An error text containing "429" or "Too Many Requests".
RateLimitText(e) == {"429", "Too Many Requests"} \cap {e[i] : i \in 1..Len(e)} # {}

\* Every call of client.send_transaction so far has failed with a rate-limit
\* error.
AllSendsRateLimited ==
  /\ s_sends > 0
  /\ ~s_signed
  /\ Len(s_errs) = s_sends
  /\ \A i \in 1..Len(s_errs) : RateLimitText(s_errs[i])

\* C1: when every call of client.send_transaction fails with a rate-limit
\* error, the call does not raise; it ends after exactly 3 submissions, having
\* slept 1 and then 2, and returns False.
C1_RateLimitedThreeAttempts ==
  AllSendsRateLimited =>
    /\ s_pc # "raised"
    /\ s_pc = "loop" => s_sends < SEND_ATTEMPTS
    /\ s_pc = "returned" =>
         /\ s_sends = 3
         /\ s_result = "False"
         /\ s_sleeps = <<1, 2>>

\* C2: an error that is no rate-limit error ends the call: it is the last
\* error caught, no submission follows it, and the call returns False; when it
\* is the first error, exactly one submission was made.
C2_OtherErrorStops ==
  \A i \in 1..Len(s_errs) :
    ~RateLimitText(s_errs[i]) =>
      /\ i = Len(s_errs)
      /\ s_sends = i
      /\ s_pc = "returned"
      /\ s_result = "False"
      /\ s_exc = "none"

\* C2's case: one submission failed with "Blockhash not found"; the call has
\* returned False.
C2_Witness ==
  /\ s_pc = "returned"
  /\ s_result = "False"
  /\ s_sends = 1
  /\ s_errs = << <<"Blockhash not found">> >>

(***************************************************************************)
(* The claims about main, under Spec.                                      *)
(***************************************************************************)
\* b < INITIAL_BUY_SOL + 0.1 for a balance of b lamports: the sum is
\* 0.15000000000000002 SOL, between 150000000 and 150000001 lamports.
BelowBuyPlusBuffer(b) == b < 150000001

\* C3: once the balance is fetched (0 when the query failed), a balance below
\* INITIAL_BUY_SOL + 0.1 has ended the run at the gate, with no download, no
\* image or metadata upload, no launch call and no submission; any other
\* balance has taken the run from the gate to the metadata upload.
C3_BalanceGate ==
  balance >= 0 =>
    IF BelowBuyPlusBuffer(balance)
      THEN /\ pc = "exited"
           /\ outcome = "abort"
           /\ visited = <<"Validate", "ConnectivityCheck", "BalanceGate">>
           /\ i_pc = "idle" /\ b_pc = "idle" /\ s_pc = "idle"
           /\ downloads = 0 /\ img_posts = 0 /\ meta_posts = 0
           /\ launch_calls = 0
           /\ rpc_sends = 0
      ELSE /\ Len(visited) >= 4
           /\ visited[4] = "MetadataUpload"

\* C3's case: the balance query failed, get_wallet_balance returned 0.0 and
\* the run has ended at the gate.
C3_Witness ==
  /\ w_response = WalletRaised
  /\ balance = 0
  /\ outcome = "abort"
  /\ "Low balance" \in printed

IsPrefix(p, q) == Len(p) <= Len(q) /\ SubSeq(q, 1, Len(p)) = p

\* The stages whose failure ends the run.
TerminalStages == {"Validate", "BalanceGate", "MetadataUpload", "Launch", "InitialBuy"}

\* C4 as stated: the stages are entered in the order of Stages, and after a
\* stage has failed no later stage is entered.
C4_EveryFailureTerminal ==
  /\ IsPrefix(visited, Stages)
  /\ \A i \in 1..Len(visited) : visited[i] \in failed => i = Len(visited)

\* C4, amended: the stages are entered in the order of Stages; a failure of
\* Validate, BalanceGate, MetadataUpload, Launch or InitialBuy (or of the
\* keypair decoding) ends the run there; a run in which only connectivity
\* probes or the token-balance query failed goes on to Done.
C4_StagesInOrder ==
  /\ IsPrefix(visited, Stages)
  /\ \A i \in 1..Len(visited) :
       visited[i] \in failed \cap TerminalStages =>
         /\ i = Len(visited)
         /\ pc = "exited"
         /\ outcome \in {"abort", "fatal", "sys_exit"}
  /\ "MakeKeypair" \in failed =>
       /\ pc = "exited"
       /\ outcome = "sys_exit"
       /\ visited = <<"Validate", "ConnectivityCheck">>
  /\ (pc = "exited" /\ outcome # "cancelled"
        /\ failed \subseteq {"ConnectivityCheck", "VerifyBalance"}) =>
       /\ outcome = "Done"
       /\ visited = Stages

\* C4's case: a connectivity probe failed and the run went on; the buy failed
\* and the run ended there.
C4_Witness ==
  /\ failed = {"ConnectivityCheck", "InitialBuy"}
  /\ pc = "exited"
  /\ outcome = "abort"
  /\ visited = SubSeq(Stages, 1, 6)

\* C5: the buy flow calls the pipeline at most 3 times and sleeps 1 + attempt
\* after each failed attempt; it returns True at the first truthy pipeline
\* result and False after three failures; no run makes more than 9
\* submissions, and a buy flow whose every submission was rate-limited has
\* made 9.
C5_BuyFlowNineSubmissions ==
  /\ b_calls <= 3
  /\ rpc_sends <= 9
  /\ b_pc = "returned" =>
       /\ Len(b_kinds) = b_calls
       /\ b_result = "True" <=> b_kinds[b_calls] = "ok"
       /\ \A i \in 1..(b_calls - 1) : b_kinds[i] # "ok"
       /\ b_result = "False" => b_calls = 3 /\ b_sleeps = <<2, 3, 4>>
       /\ b_result = "True" => b_sleeps = SubSeq(<<2, 3, 4>>, 1, b_calls - 1)
       /\ b_kinds = <<"rate_limited", "rate_limited", "rate_limited">> => rpc_sends = 9

\* The sum of the uiAmount of the accounts 1..k of accs, null counting as 0.
RECURSIVE SumUiAmount(_, _)
SumUiAmount(accs, k) ==
  IF k = 0 THEN 0
  ELSE SumUiAmount(accs, k - 1) + (IF accs[k].is_null THEN 0 ELSE accs[k].uiAmount)

\* C8: get_token_balance returns None exactly when the request raised;
\* otherwise the sum of uiAmount over the accounts returned, a null uiAmount
\* counting as zero, which is 0 when no account is returned.
C8_TokenBalance ==
  t_pc = "returned" =>
    /\ t_result.none <=> t_response.kind = "raises"
    /\ t_response.kind = "result" =>
         t_result.value = SumUiAmount(t_response.value, Len(t_response.value))
    /\ t_response.kind = "no_result" => t_result.value = 0
    /\ (t_response.kind = "result" /\ t_response.value = <<>>) => t_result = Float(0)

\* C8's case: two accounts, uiAmount 1.5 and null; the total is 1.5.
C8_Witness ==
  /\ t_pc = "returned"
  /\ t_response = TokenResult(<<Account(3), NullAccount>>)
  /\ t_result = Float(3)

\* C10: a run that ends by a failure (an abort at a stage, sys.exit, or an
\* exception caught by the __main__ block) has printed a message and ends with
\* a non-zero exit status; exit status 0 is that of the runs that reach Done.
C10_FailureExitsNonZero ==
  (pc = "exited" /\ outcome # "cancelled") =>
    /\ exit_code = 0 <=> outcome = "Done"
    /\ outcome = "fatal" => {"Fatal error", "traceback"} \subseteq printed
    /\ outcome # "Done" => printed # {}

(***************************************************************************)
(* The claims about prepare_ipfs, under SpecIpfs.                          *)
(***************************************************************************)
\* A 200 response whose body is a bare string starting with "https://".
BareUri(r) ==
  /\ ~r.raised /\ r.status = 200 /\ r.body.kind = "text"
  /\ r.body.text # <<>> /\ Head(r.body.text) = "https://"

\* A 200 response whose body is a JSON object with a non-empty url field.
JsonUrl(r) ==
  /\ ~r.raised /\ r.status = 200 /\ r.body.kind = "json_object"
  /\ r.body.url \notin {NoUrl, None, <<>>}

NotBlank(tok) == tok \notin {" ", "\n"}

\* The URI a response of one of the two shapes carries.
UriOf(r) ==
  IF BareUri(r) THEN SelectSeq(r.body.text, NotBlank)
  ELSE IF JsonUrl(r) THEN r.body.url
  ELSE None

PinnedArg == arg_image_url \notin {None, <<>>} /\ IsPrefix(PINATA_PREFIX, arg_image_url)

\* C6: when the image upload was made and its response carries no image URI,
\* no metadata POST is made and the result is None; when the metadata POST
\* fails, the result is None.
C6_NoneWhenUploadFails ==
  /\ (img_posts = 1 /\ UriOf(img_response) = None) =>
       /\ meta_posts = 0
       /\ i_pc = "returned"
       /\ i_result = None
  /\ (meta_posts = 1 /\ i_pc = "returned" /\ UriOf(meta_response) = None) =>
       i_result = None

\* C7: the result of a call that made the metadata POST is the bare https://
\* URI of a 200 body, or the non-empty url of a 200 JSON object, and None for
\* every other response; an image-upload response of either shape makes its
\* URI the image of the metadata, which is then posted.
C7_ResponseShapes ==
  /\ (i_pc = "returned" /\ meta_posts = 1) => i_result = UriOf(meta_response)
  /\ (img_posts = 1 /\ UriOf(img_response) # None) =>
       /\ image_url = UriOf(img_response)
       /\ i_pc \in {"meta_post", "returned"}
       /\ i_pc = "returned" =>
            /\ meta_posts = 1
            /\ metadata_image = UriOf(img_response)

\* C7's case: the metadata POST was answered 200 with {"url": ...}; that url
\* is the result.
C7_Witness ==
  /\ i_pc = "returned"
  /\ meta_response = Response(200, Body("json_object", <<>>, UPLOADED))
  /\ i_result = UPLOADED

\* The image bytes are uploaded: the POST is made, or is the next step.
ImageUploaded == img_posts = 1 \/ (i_pc = "img_post" /\ img_posts = 0)

\* Steps (1) to (4) of the resolution order.
ResolutionOrder ==
  i_pc # "resolve" =>
    IF PinnedArg
      THEN /\ img_posts = 0 /\ downloads = 0
           /\ data_to_upload = None
           /\ meta_posts = 1 => metadata_image = arg_image_url
    ELSE IF image_data \notin {None, <<>>}
      THEN /\ data_to_upload = image_data
           /\ downloads = 0
           /\ ImageUploaded
    ELSE IF file \notin {None, <<>>}
      THEN /\ data_to_upload \in {None, <<>>, <<"jpeg-bytes-file">>}
           /\ downloads = 0
           /\ data_to_upload = <<"jpeg-bytes-file">> <=> ImageUploaded
    ELSE IF arg_image_url \notin {None, <<>>}
      THEN /\ data_to_upload \in {None, <<>>, <<"jpeg-bytes-url">>}
           /\ downloads = 1
           /\ data_to_upload = <<"jpeg-bytes-url">> <=> ImageUploaded
    ELSE /\ data_to_upload = None
         /\ downloads = 0
         /\ img_posts = 0

\* No image was resolved: the argument is not on the pinning domain and no
\* bytes were got from image_data, the file or the download.
NothingResolved == ~PinnedArg /\ data_to_upload \in {None, <<>>}

\* C9 as stated: the image is resolved in the order (1) to (4), and when
\* none of them yields an image the default image URI is written into the
\* metadata.
C9_DefaultWhenNothingResolved ==
  /\ ResolutionOrder
  /\ (NothingResolved /\ meta_posts = 1) => metadata_image = DEFAULT_IMAGE_URL

\* C9, amended: the image is resolved in the order (1) to (4); when none of
\* them yields image bytes, the image written into the metadata is the
\* image_url argument if one was supplied, and the default image URI if none
\* was.
C9_ResolutionOrder ==
  /\ ResolutionOrder
  /\ (NothingResolved /\ meta_posts = 1) =>
       metadata_image = IF arg_image_url \in {None, <<>>}
                          THEN DEFAULT_IMAGE_URL
                          ELSE arg_image_url

\* C9's case: only a remote image_url was supplied and its download failed;
\* the metadata was posted with that image_url as its image.
C9_Witness ==
  /\ arg_image_url = IMAGE_URL
  /\ image_data = None /\ file = None
  /\ downloads = 1
  /\ data_to_upload = None
  /\ meta_posts = 1
  /\ metadata_image = IMAGE_URL

(***************************************************************************)
(* The claim about termination, under SpecLive.                            *)
(***************************************************************************)
\* The loop counters: a call of send_and_confirm_transaction is in its 1st,
\* 2nd or 3rd iteration and has submitted at most 3 times; do_initial_buy has
\* made at most 3 pipeline calls.
LoopsBounded ==
  /\ attempt <= 3
  /\ s_sends <= 3
  /\ Len(s_sleeps) <= 2
  /\ b_attempt <= 3
  /\ b_calls <= 3
  /\ Len(b_sleeps) <= 3

\* The script has ended: main reached Done, or the run was aborted.
Terminated == pc = "exited"

\* C11: no retry loop runs more than 3 iterations, and every run of main
\* ends (after Done, or by an abort), whatever the network calls return or
\* raise.
C11_Terminates == []LoopsBounded /\ <>Terminated

\* C11's case: the run has ended after the buy flow made its 3 pipeline
\* calls, each of them rate-limited, and gave up.
C11_Witness ==
  /\ Terminated
  /\ outcome = "abort"
  /\ b_calls = 3
  /\ b_result = "False"
  /\ b_kinds = <<"rate_limited", "rate_limited", "rate_limited">>
  /\ "InitialBuy" \in failed

(***************************************************************************)
(* The claim about resubmission, under SpecSend.                           *)
(***************************************************************************)
\* C12: within one call of send_and_confirm_transaction, once
\* client.send_transaction has returned a signature no further submission is
\* made, with confirm false or true, and also when client.confirm_transaction
\* raises (a rate-limit error or another one) after the submission.
C12_NoResubmission == [][s_signed => s_sends' = s_sends /\ s_pc' # "loop"]_vars

\* C12's case: with confirm true the one submission returned a signature, the
\* confirmation wait raised a rate-limit error, and the call is over.
C12_Witness ==
  /\ confirm
  /\ s_signed
  /\ s_sends = 1
  /\ s_errs = << <<"429">> >>
  /\ s_pc # "loop"

(***************************************************************************)
(* The claim about aiohttp.ClientSession, under Spec.                      *)
(***************************************************************************)
\* The call of prepare_ipfs_with_ssl_fix is in progress.
InSslFix == pc = "MetadataUpload.await"

\* C13: the SSL-fixed class is the global aiohttp.ClientSession while the
\* call of prepare_ipfs_with_ssl_fix is in progress and only then; outside
\* the call, and so after each of its exits (a URI, none, or an exception)
\* and at the launch, the buy and the balance queries, the global is the class
\* it was on entry.
C13_SessionRestored ==
  /\ original \in SessionClasses
  /\ InSslFix => ClientSession = "SSLFixedClientSession"
  /\ ~InSslFix => ClientSession = original

\* C13's case: prepare_ipfs returned a URI to a run that started with the
\* patched class as the global; the buy flow is submitting, and the global is
\* the patched class again.
C13_Witness ==
  /\ pc = "InitialBuy.await"
  /\ Truthy(uri)
  /\ rpc_sends > 0
  /\ original = "PatchedClientSession"
  /\ ClientSession = "PatchedClientSession"

====
